---------------------------- MODULE Spec2Model ----------------------------
(***************************************************************************)
(* Model of the reporting layer (report.cpp) and of the numeric field      *)
(* decoder (nuts_bolts.cpp) of grblesp.                                    *)
(*                                                                         *)
(* Text handed to the transport is a sequence of pieces, one piece per     *)
(* strcat/sprintf of the source; numeric payloads are abstracted to the    *)
(* piece that introduces them ("|WCO:", "|Ov:", "[G54:", ...).             *)
(***************************************************************************)
EXTENDS Integers, Sequences, FiniteSets, TLC

VARIABLES
  sys_state,           \* sys.state as read by the last status report
  sys_suspend,         \* sys.suspend, the set of suspend flags that are set
  report_wco_counter,  \* sys.report_wco_counter
  report_ovr_counter,  \* sys.report_ovr_counter
  status_report_mask,  \* settings.status_report_mask, the set of bits set
  features,            \* the #define's of the build
  coord_read_fail,     \* coordinate records whose settings_read_coord_data fails
  line,                \* read_float: the text line (a NUL follows its last char)
  char_counter,        \* read_float: *char_counter
  float_ptr,           \* read_float: *float_ptr
  ret,                 \* read_float: the value returned
  tx,                  \* what the last operation handed to the transport channels
  op,                  \* the last operation: its name, its client, its code
                       \* argument, what it did
  hist,                \* the run of idle status reports since start-up
  alarm_pc,            \* report_alarm_message: where the call in progress stands
  milliseconds,        \* delay_ms: the iterations it still has to make
  heap,                \* the buffers got from new[] and not given to delete[]
  alloc                \* the buffers of the last formatted send, one record each

vars == <<sys_state, sys_suspend, report_wco_counter, report_ovr_counter,
          status_report_mask, features, coord_read_fail, line, char_counter,
          float_ptr, ret, tx, op, hist, alarm_pc, milliseconds, heap, alloc>>

(***************************************************************************)
(* Bounds of the model.                                                    *)
(***************************************************************************)
HistCap == 40    \* where the count of reports without the override field stops
MaxHeap == 2     \* buffers left on the heap before the formatted sends stop
LenSpan == 9     \* message lengths go from that much below to that much above 64
MaxRun == 9      \* longest run of one repeated digit at the head of a numeral
MaxInt == 1      \* digits drawn freely after that run
MaxFrac == 2     \* digits drawn freely after the decimal point

(***************************************************************************)
(* Configuration: the refresh counts of config.h, at the stock values of   *)
(* Grbl (each count is documented there as at least 2 for the work offset  *)
(* and at least 1 for the overrides, idle <= busy).                        *)
(***************************************************************************)
REPORT_OVR_REFRESH_BUSY_COUNT == 20
REPORT_OVR_REFRESH_IDLE_COUNT == 10
REPORT_WCO_REFRESH_BUSY_COUNT == 30
REPORT_WCO_REFRESH_IDLE_COUNT == 10

\* settings.h: the coordinate records are 0..SETTING_INDEX_NCOORD, G54..G59,
\* then G28 (6) and G30 (7).
SETTING_INDEX_NCOORD == 7

\* nuts_bolts.cpp
MAX_INT_DIGITS == 8

RunStates == {"STATE_IDLE", "STATE_ALARM", "STATE_CHECK_MODE", "STATE_HOMING",
              "STATE_CYCLE", "STATE_HOLD", "STATE_JOG", "STATE_SAFETY_DOOR",
              "STATE_SLEEP"}

SuspendFlags == {"SUSPEND_HOLD_COMPLETE", "SUSPEND_RETRACT_COMPLETE",
                 "SUSPEND_INITIATE_RESTORE", "SUSPEND_SAFETY_DOOR_AJAR",
                 "SUSPEND_JOG_CANCEL"}

MaskBits == {"BITFLAG_RT_STATUS_POSITION_TYPE", "BITFLAG_RT_STATUS_BUFFER_STATE"}

AllFeatures == {"REPORT_FIELD_BUFFER_STATE", "USE_LINE_NUMBERS",
                "REPORT_FIELD_LINE_NUMBERS", "REPORT_FIELD_CURRENT_FEED_SPEED",
                "VARIABLE_SPINDLE", "REPORT_FIELD_PIN_STATE",
                "REPORT_FIELD_WORK_COORD_OFFSET", "REPORT_FIELD_OVERRIDES"}

Clients == {"CLIENT_SERIAL", "CLIENT_WEBSOCKET", "CLIENT_ALL"}

\* What a status report samples from the rest of the controller: a planner
\* block with a line number > 0, an active pin, a running spindle or coolant.
LiveInputs == {"LINE_NUMBER", "PIN", "ACCESSORY"}

(***************************************************************************)
(* grbl_send: the channels a client value selects, socket first.           *)
(***************************************************************************)
grbl_send(client, text) ==
  (IF client \in {"CLIENT_WEBSOCKET", "CLIENT_ALL"}
     THEN <<[chan |-> "Serial2Socket", text |-> text]>> ELSE <<>>)
  \o
  (IF client \in {"CLIENT_SERIAL", "CLIENT_ALL"}
     THEN <<[chan |-> "Serial", text |-> text]>> ELSE <<>>)

\* grbl_sendf formats into a buffer and hands the buffer to grbl_send. The
\* texts formatted through this operator ("error:<code>\r\n",
\* "ALARM:<code>\r\n") are shorter than local_buffer; the buffers of longer
\* messages are followed by FormatBuffer and grbl_sendf_heap below.
grbl_sendf(client, text) == grbl_send(client, text)

(***************************************************************************)
(* grbl_sendf and grbl_msg_sendf with their buffers: a formatted message   *)
(* is known by its length, the one vsnprintf(NULL, 0, ...) returns. Both   *)
(* vsnprintf calls are taken to return the same length.                    *)
(***************************************************************************)
\* sizeof(local_buffer)
LOCAL_BUFFER_SIZE == 64

\* report.h and config.h: the levels go from MSG_LEVEL_NONE (0) to
\* MSG_LEVEL_VERBOSE (5), GRBL_MSG_LEVEL is MSG_LEVEL_INFO.
GRBL_MSG_LEVEL == 3

MsgLevels == 0..5

\* "[MSG:%s]\r\n" adds "[MSG:" and "]\r\n" to the text.
MsgFrameChars == 8

\* The buffer of one formatted send: temp is local_buffer unless
\* length >= sizeof(local_buffer), then it is got from new[] (nothing is sent
\* when new[] gives NULL); after the send, "if (length > 64) delete[] temp".
FormatBuffer(length, new_ok) ==
  LET requested == length >= LOCAL_BUFFER_SIZE
  IN IF requested /\ ~new_ok
       THEN [length |-> length, requested |-> TRUE, allocated |-> FALSE,
             released |-> FALSE, sent |-> FALSE]
       ELSE [length |-> length, requested |-> requested, allocated |-> requested,
             released |-> length > 64, sent |-> TRUE]

\* The buffers a call leaves on the heap.
Leaked(buffers) ==
  Cardinality({i \in DOMAIN buffers :
                 buffers[i].allocated /\ ~buffers[i].released})

\* grbl_sendf on a message of that length.
grbl_sendf_heap(client, length, new_ok) ==
  LET b == FormatBuffer(length, new_ok)
  IN /\ heap < MaxHeap
     /\ alloc' = <<b>>
     /\ heap' = heap + Leaked(<<b>>)
     /\ tx' = IF b.sent THEN grbl_send(client, <<"formatted">>) ELSE <<>>
     /\ op' = [name |-> "grbl_sendf", client |-> client, armed |-> FALSE,
               code |-> 0]
     /\ UNCHANGED <<sys_state, sys_suspend, report_wco_counter,
                    report_ovr_counter, status_report_mask, features,
                    coord_read_fail, line, char_counter, float_ptr, ret, hist,
                    alarm_pc, milliseconds>>

\* grbl_msg_sendf on a text of that length: nothing above GRBL_MSG_LEVEL;
\* else the text is formatted into a buffer of its own and handed to
\* grbl_sendf inside "[MSG:%s]\r\n".
grbl_msg_sendf(client, level, length, new_ok, new_ok_sendf) ==
  LET b == FormatBuffer(length, new_ok)
      f == FormatBuffer(length + MsgFrameChars, new_ok_sendf)
      buffers == IF level > GRBL_MSG_LEVEL THEN <<>>
                 ELSE IF ~b.sent THEN <<b>>
                 ELSE <<b, f>>
  IN /\ heap < MaxHeap
     /\ alloc' = buffers
     /\ heap' = heap + Leaked(buffers)
     /\ tx' = IF Len(buffers) = 2 /\ f.sent
                THEN grbl_send(client, <<"[MSG:", "formatted", "]\r\n">>)
                ELSE <<>>
     /\ op' = [name |-> "grbl_msg_sendf", client |-> client, armed |-> FALSE,
               code |-> level]
     /\ UNCHANGED <<sys_state, sys_suspend, report_wco_counter,
                    report_ovr_counter, status_report_mask, features,
                    coord_read_fail, line, char_counter, float_ptr, ret, hist,
                    alarm_pc, milliseconds>>

(***************************************************************************)
(* report_realtime_status                                                  *)
(***************************************************************************)
\* StateToken with the two hold sub-states exchanged.
StateToken_HoldSwapped(state, suspend) ==
  CASE state = "STATE_IDLE" -> <<"Idle">>
    [] state = "STATE_CYCLE" -> <<"Run">>
    [] state = "STATE_HOLD" ->
         IF "SUSPEND_JOG_CANCEL" \notin suspend
           THEN <<"Hold:">> \o (IF "SUSPEND_HOLD_COMPLETE" \in suspend
                                  THEN <<"1">> ELSE <<"0">>)
           ELSE <<"Jog">>
    [] state = "STATE_JOG" -> <<"Jog">>
    [] state = "STATE_HOMING" -> <<"Home">>
    [] state = "STATE_ALARM" -> <<"Alarm">>
    [] state = "STATE_CHECK_MODE" -> <<"Check">>
    [] state = "STATE_SAFETY_DOOR" ->
         <<"Door:">> \o
         (IF "SUSPEND_INITIATE_RESTORE" \in suspend THEN <<"3">>
          ELSE IF "SUSPEND_RETRACT_COMPLETE" \in suspend
                 THEN (IF "SUSPEND_SAFETY_DOOR_AJAR" \in suspend
                         THEN <<"1">> ELSE <<"0">>)
                 ELSE <<"2">>)
    [] state = "STATE_SLEEP" -> <<"Sleep">>
    [] OTHER -> <<>>

\* StateToken without the "break" of "case STATE_IDLE": the idle state falls
\* through into "case STATE_CYCLE".
StateToken_NoBreak(state, suspend) ==
  CASE state = "STATE_IDLE" -> <<"Idle", "Run">>
    [] state = "STATE_CYCLE" -> <<"Run">>
    [] state = "STATE_HOLD" ->
         IF "SUSPEND_JOG_CANCEL" \notin suspend
           THEN <<"Hold:">> \o (IF "SUSPEND_HOLD_COMPLETE" \in suspend
                                  THEN <<"0">> ELSE <<"1">>)
           ELSE <<"Jog">>
    [] state = "STATE_JOG" -> <<"Jog">>
    [] state = "STATE_HOMING" -> <<"Home">>
    [] state = "STATE_ALARM" -> <<"Alarm">>
    [] state = "STATE_CHECK_MODE" -> <<"Check">>
    [] state = "STATE_SAFETY_DOOR" ->
         <<"Door:">> \o
         (IF "SUSPEND_INITIATE_RESTORE" \in suspend THEN <<"3">>
          ELSE IF "SUSPEND_RETRACT_COMPLETE" \in suspend
                 THEN (IF "SUSPEND_SAFETY_DOOR_AJAR" \in suspend
                         THEN <<"1">> ELSE <<"0">>)
                 ELSE <<"2">>)
    [] state = "STATE_SLEEP" -> <<"Sleep">>
    [] OTHER -> <<>>

\* The run-state token: the switch on sys.state, with the fall through from
\* STATE_HOLD to STATE_JOG when a jog cancel is pending.
StateToken(state, suspend) ==
  CASE state = "STATE_IDLE" -> <<"Idle">>
    [] state = "STATE_CYCLE" -> <<"Run">>
    [] state = "STATE_HOLD" ->
         IF "SUSPEND_JOG_CANCEL" \notin suspend
           THEN <<"Hold:">> \o (IF "SUSPEND_HOLD_COMPLETE" \in suspend
                                  THEN <<"0">> ELSE <<"1">>)
           ELSE <<"Jog">>
    [] state = "STATE_JOG" -> <<"Jog">>
    [] state = "STATE_HOMING" -> <<"Home">>
    [] state = "STATE_ALARM" -> <<"Alarm">>
    [] state = "STATE_CHECK_MODE" -> <<"Check">>
    [] state = "STATE_SAFETY_DOOR" ->
         <<"Door:">> \o
         (IF "SUSPEND_INITIATE_RESTORE" \in suspend THEN <<"3">>
          ELSE IF "SUSPEND_RETRACT_COMPLETE" \in suspend
                 THEN (IF "SUSPEND_SAFETY_DOOR_AJAR" \in suspend
                         THEN <<"1">> ELSE <<"0">>)
                 ELSE <<"2">>)
    [] state = "STATE_SLEEP" -> <<"Sleep">>
    [] OTHER -> <<>>

\* Busy without the door state in the mask.
Busy_NoDoor(state) ==
  state \in {"STATE_HOMING", "STATE_CYCLE", "STATE_HOLD", "STATE_JOG"}

\* sys.state & (STATE_HOMING | STATE_CYCLE | STATE_HOLD | STATE_JOG | STATE_SAFETY_DOOR)
Busy(state) ==
  state \in {"STATE_HOMING", "STATE_CYCLE", "STATE_HOLD", "STATE_JOG",
             "STATE_SAFETY_DOOR"}

\* WcoComputed without "|| (sys.report_wco_counter == 0)".
WcoComputed_WorkOnly(mask, wco) ==
  "BITFLAG_RT_STATUS_POSITION_TYPE" \notin mask

\* work_coordinate_offsets is filled in only under this condition.
WcoComputed(mask, wco) ==
  "BITFLAG_RT_STATUS_POSITION_TYPE" \notin mask \/ wco = 0

PositionField(mask) ==
  IF "BITFLAG_RT_STATUS_POSITION_TYPE" \in mask THEN <<"|MPos:">> ELSE <<"|WPos:">>

\* BufferField without the test of the runtime mask.
BufferField_NoMask(feats, mask) ==
  IF "REPORT_FIELD_BUFFER_STATE" \in feats THEN <<"|Bf:">> ELSE <<>>

BufferField(feats, mask) ==
  IF "REPORT_FIELD_BUFFER_STATE" \in feats
     /\ "BITFLAG_RT_STATUS_BUFFER_STATE" \in mask
    THEN <<"|Bf:">> ELSE <<>>

LineNumberField(feats, live) ==
  IF {"USE_LINE_NUMBERS", "REPORT_FIELD_LINE_NUMBERS"} \subseteq feats
     /\ "LINE_NUMBER" \in live
    THEN <<"|Ln:">> ELSE <<>>

FeedSpeedField(feats) ==
  IF "REPORT_FIELD_CURRENT_FEED_SPEED" \in feats
    THEN (IF "VARIABLE_SPINDLE" \in feats THEN <<"|FS:">> ELSE <<"|F:">>)
    ELSE <<>>

PinField(feats, live) ==
  IF "REPORT_FIELD_PIN_STATE" \in feats /\ "PIN" \in live
    THEN <<"|Pn:">> ELSE <<>>

\* WcoThrottle with a refresh count of 1: the counter is reloaded with 0 and
\* the field is sent by every report.
WcoThrottle_EveryReport(feats, state, wco, ovr) ==
  IF "REPORT_FIELD_WORK_COORD_OFFSET" \notin feats
    THEN [wco |-> wco, ovr |-> ovr, emit |-> FALSE, armed |-> FALSE]
  ELSE IF wco > 0
    THEN [wco |-> wco - 1, ovr |-> ovr, emit |-> FALSE, armed |-> FALSE]
  ELSE [wco   |-> 0,
        ovr   |-> IF ovr = 0 THEN 1 ELSE ovr,
        emit  |-> TRUE,
        armed |-> ovr = 0]

\* WcoThrottle without "if (sys.report_ovr_counter == 0) { ... = 1; }".
WcoThrottle_NoArm(feats, state, wco, ovr) ==
  IF "REPORT_FIELD_WORK_COORD_OFFSET" \notin feats
    THEN [wco |-> wco, ovr |-> ovr, emit |-> FALSE, armed |-> FALSE, code |-> 0]
  ELSE IF wco > 0
    THEN [wco |-> wco - 1, ovr |-> ovr, emit |-> FALSE, armed |-> FALSE, code |-> 0]
  ELSE [wco   |-> IF Busy(state) THEN REPORT_WCO_REFRESH_BUSY_COUNT - 1
                                 ELSE REPORT_WCO_REFRESH_IDLE_COUNT - 1,
        ovr   |-> ovr,
        emit  |-> TRUE,
        armed |-> FALSE, code |-> 0]

\* WcoThrottle setting the override counter to 2 instead of 1.
WcoThrottle_ArmTwo(feats, state, wco, ovr) ==
  IF "REPORT_FIELD_WORK_COORD_OFFSET" \notin feats
    THEN [wco |-> wco, ovr |-> ovr, emit |-> FALSE, armed |-> FALSE, code |-> 0]
  ELSE IF wco > 0
    THEN [wco |-> wco - 1, ovr |-> ovr, emit |-> FALSE, armed |-> FALSE, code |-> 0]
  ELSE [wco   |-> IF Busy(state) THEN REPORT_WCO_REFRESH_BUSY_COUNT - 1
                                 ELSE REPORT_WCO_REFRESH_IDLE_COUNT - 1,
        ovr   |-> IF ovr = 0 THEN 2 ELSE ovr,
        emit  |-> TRUE,
        armed |-> ovr = 0]

\* WcoThrottle with the guard "> 0" written ">= 0": the 8-bit counter is
\* decremented at zero too, and wraps.
WcoThrottle_NoGuard(feats, state, wco, ovr) ==
  IF "REPORT_FIELD_WORK_COORD_OFFSET" \notin feats
    THEN [wco |-> wco, ovr |-> ovr, emit |-> FALSE, armed |-> FALSE, code |-> 0]
  ELSE [wco |-> (wco + 255) % 256, ovr |-> ovr, emit |-> FALSE, armed |-> FALSE, code |-> 0]

\* The work-offset throttle block: the counters it leaves, whether it emits
\* the field, and whether it set the override counter to 1.
WcoThrottle(feats, state, wco, ovr) ==
  IF "REPORT_FIELD_WORK_COORD_OFFSET" \notin feats
    THEN [wco |-> wco, ovr |-> ovr, emit |-> FALSE, armed |-> FALSE, code |-> 0]
  ELSE IF wco > 0
    THEN [wco |-> wco - 1, ovr |-> ovr, emit |-> FALSE, armed |-> FALSE, code |-> 0]
  ELSE [wco   |-> IF Busy(state) THEN REPORT_WCO_REFRESH_BUSY_COUNT - 1
                                 ELSE REPORT_WCO_REFRESH_IDLE_COUNT - 1,
        ovr   |-> IF ovr = 0 THEN 1 ELSE ovr,
        emit  |-> TRUE,
        armed |-> ovr = 0]

\* OvrThrottle reloading the refresh count itself, not the count minus one.
OvrThrottle_ReloadFull(feats, state, ovr) ==
  IF "REPORT_FIELD_OVERRIDES" \notin feats
    THEN [ovr |-> ovr, emit |-> FALSE]
  ELSE IF ovr > 0
    THEN [ovr |-> ovr - 1, emit |-> FALSE]
  ELSE [ovr  |-> IF Busy(state) THEN REPORT_OVR_REFRESH_BUSY_COUNT
                                ELSE REPORT_OVR_REFRESH_IDLE_COUNT,
        emit |-> TRUE]

\* The override throttle block, entered with the override counter the
\* work-offset block left.
OvrThrottle(feats, state, ovr) ==
  IF "REPORT_FIELD_OVERRIDES" \notin feats
    THEN [ovr |-> ovr, emit |-> FALSE]
  ELSE IF ovr > 0
    THEN [ovr |-> ovr - 1, emit |-> FALSE]
  ELSE [ovr  |-> IF Busy(state) THEN REPORT_OVR_REFRESH_BUSY_COUNT - 1
                                ELSE REPORT_OVR_REFRESH_IDLE_COUNT - 1,
        emit |-> TRUE]

\* The offsets printed are the local array: uninitialised unless computed.
WcoField(w, computed) ==
  IF w.emit THEN <<"|WCO:", IF computed THEN "wco" ELSE "uninitialised">>
            ELSE <<>>

OvrField(o, live) ==
  IF o.emit THEN <<"|Ov:">> \o (IF "ACCESSORY" \in live THEN <<"|A:">> ELSE <<>>)
            ELSE <<>>

\* The idle run since start-up: how many reports since the last one carrying
\* the override field (or since the start), and the distance between the last
\* two that carried it (0 while there are not yet two).
HistStep(h, state, ovEmitted) ==
  IF ~h.idle \/ state # "STATE_IDLE"
    THEN [idle |-> FALSE, since |-> 0, seen |-> FALSE, gap |-> 0]
  ELSE IF ovEmitted
    THEN [idle |-> TRUE, since |-> 0, seen |-> TRUE,
          gap |-> IF h.seen THEN h.since + 1 ELSE 0]
  ELSE [idle |-> TRUE,
        since |-> IF h.since < HistCap THEN h.since + 1 ELSE HistCap,
        seen |-> h.seen, gap |-> h.gap]

\* One status report, made while sys.state = state and sys.suspend = suspend.
report_realtime_status(client, state, suspend, live) ==
  LET w == WcoThrottle(features, state, report_wco_counter, report_ovr_counter)
      o == OvrThrottle(features, state, w.ovr)
      computed == WcoComputed(status_report_mask, report_wco_counter)
      status == <<"<">> \o StateToken(state, suspend)
                \o PositionField(status_report_mask)
                \o BufferField(features, status_report_mask)
                \o LineNumberField(features, live)
                \o FeedSpeedField(features)
                \o PinField(features, live)
                \o WcoField(w, computed)
                \o OvrField(o, live)
                \o <<">\r\n">>
  IN /\ sys_state' = state
     /\ sys_suspend' = suspend
     /\ report_wco_counter' = w.wco
     /\ report_ovr_counter' = o.ovr
     /\ tx' = grbl_send(client, status)
     /\ op' = [name |-> "report_realtime_status", client |-> client,
               armed |-> w.armed, code |-> 0]
     /\ hist' = HistStep(hist, state, o.emit)
     /\ UNCHANGED <<status_report_mask, features, coord_read_fail, line,
                    char_counter, float_ptr, ret, alarm_pc, milliseconds, heap,
                    alloc>>

\* The flags of sys.suspend the switch tests on the path it takes, given the
\* flags its tests see set.
TestedFlags(state, seen) ==
  CASE state = "STATE_HOLD" ->
         {"SUSPEND_JOG_CANCEL"}
         \cup (IF "SUSPEND_JOG_CANCEL" \notin seen
                 THEN {"SUSPEND_HOLD_COMPLETE"} ELSE {})
    [] state = "STATE_SAFETY_DOOR" ->
         {"SUSPEND_INITIATE_RESTORE"}
         \cup (IF "SUSPEND_INITIATE_RESTORE" \notin seen
                 THEN {"SUSPEND_RETRACT_COMPLETE"}
                      \cup (IF "SUSPEND_RETRACT_COMPLETE" \in seen
                              THEN {"SUSPEND_SAFETY_DOOR_AJAR"} ELSE {})
                 ELSE {})
    [] OTHER -> {}

\* One status report during which an interrupt may write sys.state and
\* sys.suspend between any two reads, so that every read may see a value of
\* its own. sys.state is read by the switch, by the work-offset block and by
\* the override block. sys.suspend is read once per flag tested, and no flag
\* is tested twice on one path: seen holds the flags whose test saw them set.
\* sys_state and sys_suspend keep what the last read of sys.state saw and
\* the flags the report saw set.
report_realtime_status_irq(client, state_switch, seen, state_wco, state_ovr, live) ==
  LET w == WcoThrottle(features, state_wco, report_wco_counter, report_ovr_counter)
      o == OvrThrottle(features, state_ovr, w.ovr)
      computed == WcoComputed(status_report_mask, report_wco_counter)
      status == <<"<">> \o StateToken(state_switch, seen)
                \o PositionField(status_report_mask)
                \o BufferField(features, status_report_mask)
                \o LineNumberField(features, live)
                \o FeedSpeedField(features)
                \o PinField(features, live)
                \o WcoField(w, computed)
                \o OvrField(o, live)
                \o <<">\r\n">>
      shown == IF state_switch # "STATE_IDLE" THEN state_switch
               ELSE IF state_wco # "STATE_IDLE" THEN state_wco ELSE state_ovr
  IN /\ sys_state' = state_ovr
     /\ sys_suspend' = seen \cap TestedFlags(state_switch, seen)
     /\ report_wco_counter' = w.wco
     /\ report_ovr_counter' = o.ovr
     /\ tx' = grbl_send(client, status)
     /\ op' = [name |-> "report_realtime_status", client |-> client,
               armed |-> w.armed, code |-> 0]
     /\ hist' = HistStep(hist, shown, o.emit)
     /\ UNCHANGED <<status_report_mask, features, coord_read_fail, line,
                    char_counter, float_ptr, ret, alarm_pc, milliseconds, heap,
                    alloc>>

(***************************************************************************)
(* report_status_message, report_probe_parameters, report_ngc_parameters   *)
(***************************************************************************)
report_status_message(status_code, client) ==
  IF status_code = "STATUS_OK"
    THEN grbl_send(client, <<"ok\r\n">>)
    ELSE grbl_sendf(client, <<"error:", status_code, "\r\n">>)

report_probe_parameters(client) ==
  grbl_send(client, <<"[PRB:", "axes", ":", "probe_succeeded", "]\r\n">>)

CoordName(coordinate_select) ==
  CASE coordinate_select = 6 -> "28"
    [] coordinate_select = 7 -> "30"
    [] OTHER -> ToString(coordinate_select + 54)

\* The loop over the coordinate records, from record coordinate_select on:
\* ngc_report grows by one record per read that succeeds, and the loop ends
\* at the first read that fails.
RECURSIVE NgcLoop(_, _, _)
NgcLoop(coordinate_select, ngc_report, fail) ==
  IF coordinate_select > SETTING_INDEX_NCOORD
    THEN [failed |-> FALSE, ngc_report |-> ngc_report]
  ELSE IF coordinate_select \in fail
    THEN [failed |-> TRUE, ngc_report |-> ngc_report]
  ELSE NgcLoop(coordinate_select + 1,
               ngc_report \o <<"[G", CoordName(coordinate_select), ":", "axes",
                               "]\r\n">>,
               fail)

\* The loop with the "return" after report_status_message left out: the
\* failing record is skipped and the report goes on.
RECURSIVE NgcLoop_NoReturn(_, _, _)
NgcLoop_NoReturn(coordinate_select, ngc_report, fail) ==
  IF coordinate_select > SETTING_INDEX_NCOORD
    THEN ngc_report
  ELSE NgcLoop_NoReturn(coordinate_select + 1,
         IF coordinate_select \in fail THEN ngc_report
         ELSE ngc_report \o <<"[G", CoordName(coordinate_select), ":", "axes",
                              "]\r\n">>,
         fail)

NgcOutput_NoReturn(client, fail) ==
  (IF fail # {} THEN report_status_message("STATUS_SETTING_READ_FAIL", client)
                ELSE <<>>)
  \o grbl_send(client, NgcLoop_NoReturn(0, <<>>, fail)
                       \o <<"[G92:", "axes", "]\r\n", "[TLO:", "tlo", "]\r\n">>)
  \o report_probe_parameters(client)

\* Everything report_ngc_parameters hands to the transport.
NgcOutput(client, fail) ==
  LET r == NgcLoop(0, <<>>, fail)
  IN IF r.failed
       THEN report_status_message("STATUS_SETTING_READ_FAIL", client)
       ELSE grbl_send(client, r.ngc_report
                              \o <<"[G92:", "axes", "]\r\n", "[TLO:", "tlo", "]\r\n">>)
            \o report_probe_parameters(client)

report_ngc_parameters(client) ==
  /\ tx' = NgcOutput(client, coord_read_fail)
  /\ op' = [name |-> "report_ngc_parameters", client |-> client, armed |-> FALSE, code |-> 0]
  /\ UNCHANGED <<sys_state, sys_suspend, report_wco_counter, report_ovr_counter,
                 status_report_mask, features, coord_read_fail, line,
                 char_counter, float_ptr, ret, hist, alarm_pc, milliseconds,
                 heap, alloc>>

(***************************************************************************)
(* report_alarm_message and delay_ms                                       *)
(*                                                                         *)
(* The call is followed through its delay: one step hands the frame to     *)
(* grbl_sendf and enters delay_ms(500), one step per iteration of the loop *)
(* of delay_ms, one step for the return. The caller is the main loop, which *)
(* goes on with other operations only once the call has returned.          *)
(***************************************************************************)
\* The argument of "delay_ms(500)".
AlarmDelay == 500

\* The alarm codes of the controller (hard limit, soft limit, abort during
\* cycle, probe and homing failures).
AlarmCodes == 1..9

\* report_alarm_message sending to the serial port only.
report_alarm_message_SerialOnly(alarm_code) ==
  /\ alarm_pc = "idle"
  /\ tx' = grbl_sendf("CLIENT_SERIAL", <<"ALARM:", ToString(alarm_code), "\r\n">>)
  /\ alarm_pc' = "delay_ms"
  /\ milliseconds' = AlarmDelay
  /\ op' = [name |-> "report_alarm_message", client |-> "CLIENT_ALL",
            armed |-> FALSE, code |-> alarm_code]
  /\ UNCHANGED <<sys_state, sys_suspend, report_wco_counter, report_ovr_counter,
                 status_report_mask, features, coord_read_fail, line,
                 char_counter, float_ptr, ret, hist, heap, alloc>>

\* The call, up to the entry into delay_ms.
report_alarm_message(alarm_code) ==
  /\ alarm_pc = "idle"
  /\ tx' = grbl_sendf("CLIENT_ALL", <<"ALARM:", ToString(alarm_code), "\r\n">>)
  /\ alarm_pc' = "delay_ms"
  /\ milliseconds' = AlarmDelay
  /\ op' = [name |-> "report_alarm_message", client |-> "CLIENT_ALL",
            armed |-> FALSE, code |-> alarm_code]
  /\ UNCHANGED <<sys_state, sys_suspend, report_wco_counter, report_ovr_counter,
                 status_report_mask, features, coord_read_fail, line,
                 char_counter, float_ptr, ret, hist, heap, alloc>>

\* One iteration of "while ( milliseconds-- ) { ESP.wdtFeed();
\* delayMicroseconds(950); }".
delay_ms ==
  /\ alarm_pc = "delay_ms"
  /\ milliseconds > 0
  /\ milliseconds' = milliseconds - 1
  /\ UNCHANGED <<sys_state, sys_suspend, report_wco_counter, report_ovr_counter,
                 status_report_mask, features, coord_read_fail, line,
                 char_counter, float_ptr, ret, tx, op, hist, alarm_pc, heap,
                 alloc>>

\* The loop of delay_ms ends, report_alarm_message returns to its caller.
alarm_return ==
  /\ alarm_pc = "delay_ms"
  /\ milliseconds = 0
  /\ alarm_pc' = "idle"
  /\ UNCHANGED <<sys_state, sys_suspend, report_wco_counter, report_ovr_counter,
                 status_report_mask, features, coord_read_fail, line,
                 char_counter, float_ptr, ret, tx, op, hist, milliseconds, heap,
                 alloc>>

(***************************************************************************)
(* read_float                                                              *)
(*                                                                         *)
(* A decoded value is kept as the decimal m * 10^e (negated when neg): the *)
(* integer the digits were gathered into and the power of ten the          *)
(* multiplications by 0.01, 0.1 and 10.0 apply to it. The rounding of the  *)
(* binary float is not represented.                                        *)
(***************************************************************************)
Digits == {"0", "1", "2", "3", "4", "5", "6", "7", "8", "9"}

\* The character code of the characters the lines are made of.
Ord(c) ==
  CASE c = "NUL" -> 0
    [] c = " " -> 32
    [] c = "+" -> 43
    [] c = "-" -> 45
    [] c = "." -> 46
    [] c = "0" -> 48
    [] c = "1" -> 49
    [] c = "2" -> 50
    [] c = "3" -> 51
    [] c = "4" -> 52
    [] c = "5" -> 53
    [] c = "6" -> 54
    [] c = "7" -> 55
    [] c = "8" -> 56
    [] c = "9" -> 57
    [] c = "X" -> 88

\* line[i] of the C string, i counted from 0: the terminator follows the text.
CharAt(ln, i) == IF i < Len(ln) THEN ln[i + 1] ELSE "NUL"

\* The while(1) loop without "&& !(is_decimal)": every decimal point is
\* taken into the numeral.
RECURSIVE Scan_AnyPoint(_, _, _, _, _, _, _)
Scan_AnyPoint(ln, ptr, current_char, integer_value, exponent, num_digits, is_decimal) ==
  LET c == (Ord(current_char) + 256 - Ord("0")) % 256
  IN IF c <= 9
       THEN LET n == (num_digits + 1) % 256
            IN IF n <= MAX_INT_DIGITS
                 THEN Scan_AnyPoint(ln, ptr + 1, CharAt(ln, ptr),
                                    integer_value * 10 + c,
                                    IF is_decimal THEN exponent - 1 ELSE exponent,
                                    n, is_decimal)
                 ELSE Scan_AnyPoint(ln, ptr + 1, CharAt(ln, ptr),
                                    integer_value,
                                    IF ~is_decimal THEN exponent + 1 ELSE exponent,
                                    n, is_decimal)
     ELSE IF c = (Ord(".") + 256 - Ord("0")) % 256
       THEN Scan_AnyPoint(ln, ptr + 1, CharAt(ln, ptr), integer_value, exponent,
                          num_digits, TRUE)
     ELSE [ptr |-> ptr, integer_value |-> integer_value, exponent |-> exponent,
           num_digits |-> num_digits]

\* The while(1) loop without "exponent++" for the digits beyond the cap: the
\* dropped integer digits no longer scale the value.
RECURSIVE Scan_NoDrop(_, _, _, _, _, _, _)
Scan_NoDrop(ln, ptr, current_char, integer_value, exponent, num_digits, is_decimal) ==
  LET c == (Ord(current_char) + 256 - Ord("0")) % 256
  IN IF c <= 9
       THEN LET n == (num_digits + 1) % 256
            IN IF n <= MAX_INT_DIGITS
                 THEN Scan_NoDrop(ln, ptr + 1, CharAt(ln, ptr),
                                  integer_value * 10 + c,
                                  IF is_decimal THEN exponent - 1 ELSE exponent,
                                  n, is_decimal)
                 ELSE Scan_NoDrop(ln, ptr + 1, CharAt(ln, ptr),
                                  integer_value, exponent, n, is_decimal)
     ELSE IF c = (Ord(".") + 256 - Ord("0")) % 256 /\ ~is_decimal
       THEN Scan_NoDrop(ln, ptr + 1, CharAt(ln, ptr), integer_value, exponent,
                        num_digits, TRUE)
     ELSE [ptr |-> ptr, integer_value |-> integer_value, exponent |-> exponent,
           num_digits |-> num_digits]

\* The while(1) loop, entered with current_char already fetched and ptr one
\* past it; current_char -= '0' is done on an unsigned char and num_digits is
\* a uint8_t. At most MAX_INT_DIGITS digits reach integer_value, which stays
\* below 10^8 and within its 32 bits; exponent (declared "int88_t", int8_t
\* in Grbl) stays within 8 bits on lines of fewer than 128 characters.
RECURSIVE Scan(_, _, _, _, _, _, _)
Scan(ln, ptr, current_char, integer_value, exponent, num_digits, is_decimal) ==
  LET c == (Ord(current_char) + 256 - Ord("0")) % 256
  IN IF c <= 9
       THEN LET n == (num_digits + 1) % 256
            IN IF n <= MAX_INT_DIGITS
                 THEN Scan(ln, ptr + 1, CharAt(ln, ptr),
                           integer_value * 10 + c,
                           IF is_decimal THEN exponent - 1 ELSE exponent,
                           n, is_decimal)
                 ELSE Scan(ln, ptr + 1, CharAt(ln, ptr),
                           integer_value,
                           IF ~is_decimal THEN exponent + 1 ELSE exponent,
                           n, is_decimal)
     ELSE IF c = (Ord(".") + 256 - Ord("0")) % 256 /\ ~is_decimal
       THEN Scan(ln, ptr + 1, CharAt(ln, ptr), integer_value, exponent,
                 num_digits, TRUE)
     ELSE [ptr |-> ptr, integer_value |-> integer_value, exponent |-> exponent,
           num_digits |-> num_digits]

\* "Apply decimal": by 0.01 while exponent <= -2, then by 0.1 if exponent < 0,
\* or by 10.0 exponent times if exponent > 0; nothing when the value is 0.
RECURSIVE MulHundredth(_, _)
MulHundredth(float_value, exponent) ==
  IF exponent <= -2
    THEN MulHundredth([float_value EXCEPT !.e = @ - 2], exponent + 2)
    ELSE [v |-> float_value, exponent |-> exponent]

RECURSIVE MulTen(_, _)
MulTen(float_value, exponent) ==
  LET v == [float_value EXCEPT !.e = @ + 1]
  IN IF exponent - 1 > 0 THEN MulTen(v, exponent - 1) ELSE v

ApplyDecimal(float_value, exponent) ==
  IF float_value.m # 0
    THEN LET h == MulHundredth(float_value, exponent)
         IN IF h.exponent < 0 THEN [h.v EXCEPT !.e = @ - 1]
            ELSE IF h.exponent > 0 THEN MulTen(h.v, h.exponent)
            ELSE h.v
    ELSE float_value

\* read_float without "if (!num_digits) return(false)".
ReadFloat_NoDigitCheck(ln, cc, fp) ==
  LET c0   == CharAt(ln, cc)
      sign == c0 \in {"-", "+"}
      s    == IF sign THEN Scan(ln, cc + 2, CharAt(ln, cc + 1), 0, 0, 0, FALSE)
                      ELSE Scan(ln, cc + 1, c0, 0, 0, 0, FALSE)
      v    == ApplyDecimal([neg |-> FALSE, m |-> s.integer_value, e |-> 0],
                           s.exponent)
  IN [ret |-> TRUE,
      char_counter |-> (s.ptr - 1) % 256,
      float_ptr |-> [v EXCEPT !.neg = (c0 = "-")]]

\* What read_float returns and leaves in *char_counter and *float_ptr.
ReadFloat(ln, cc, fp) ==
  LET c0   == CharAt(ln, cc)
      sign == c0 \in {"-", "+"}
      s    == IF sign THEN Scan(ln, cc + 2, CharAt(ln, cc + 1), 0, 0, 0, FALSE)
                      ELSE Scan(ln, cc + 1, c0, 0, 0, 0, FALSE)
      v    == ApplyDecimal([neg |-> FALSE, m |-> s.integer_value, e |-> 0],
                           s.exponent)
  IN IF s.num_digits = 0
       THEN [ret |-> FALSE, char_counter |-> cc, float_ptr |-> fp]
       ELSE [ret |-> TRUE,
             char_counter |-> (s.ptr - 1) % 256,
             float_ptr |-> [v EXCEPT !.neg = (c0 = "-")]]

read_float ==
  /\ op.name = "none"
  /\ LET r == ReadFloat(line, char_counter, float_ptr)
     IN /\ ret' = r.ret
        /\ char_counter' = r.char_counter
        /\ float_ptr' = r.float_ptr
  /\ op' = [name |-> "read_float", client |-> "CLIENT_SERIAL", armed |-> FALSE, code |-> 0]
  /\ UNCHANGED <<sys_state, sys_suspend, report_wco_counter, report_ovr_counter,
                 status_report_mask, features, coord_read_fail, line, tx, hist,
                 alarm_pc, milliseconds, heap, alloc>>

(***************************************************************************)
(* Start-up: counters zeroed, nothing sent yet.                            *)
(***************************************************************************)
NoOp == [name |-> "none", client |-> "CLIENT_SERIAL", armed |-> FALSE, code |-> 0]

HistInit == [idle |-> TRUE, since |-> 0, seen |-> FALSE, gap |-> 0]

\* No formatted send yet: no buffer.
NoAlloc == <<>>

\* The throttled status reporter of the stock build, over every run-state.
Init ==
  /\ sys_state = "STATE_IDLE"
  /\ sys_suspend = {}
  /\ report_wco_counter = 0
  /\ report_ovr_counter = 0
  /\ status_report_mask \in SUBSET {"BITFLAG_RT_STATUS_POSITION_TYPE"}
  /\ features = AllFeatures
  /\ coord_read_fail = {}
  /\ line = <<>>
  /\ char_counter = 0
  /\ float_ptr = [neg |-> FALSE, m |-> 0, e |-> 0]
  /\ ret = FALSE
  /\ tx = <<>>
  /\ op = NoOp
  /\ hist = HistInit
  /\ alarm_pc = "idle"
  /\ milliseconds = 0
  /\ heap = 0
  /\ alloc = NoAlloc

Next ==
  \E state \in RunStates :
    report_realtime_status("CLIENT_SERIAL", state, sys_suspend, {})

Spec == Init /\ [][Next]_vars

\* The same, the reporter being called again and again without end (the main
\* loop reports on every status request and never stops).
SpecLive == Init /\ [][Next]_vars /\ WF_vars(Next)

\* The run-state token, for every run-state and every set of suspend flags,
\* each held while the reporter is called again and again.
InitToken ==
  /\ sys_state \in RunStates
  /\ sys_suspend \in SUBSET SuspendFlags
  /\ report_wco_counter = 0
  /\ report_ovr_counter = 0
  /\ status_report_mask = {}
  /\ features = AllFeatures
  /\ coord_read_fail = {}
  /\ line = <<>>
  /\ char_counter = 0
  /\ float_ptr = [neg |-> FALSE, m |-> 0, e |-> 0]
  /\ ret = FALSE
  /\ tx = <<>>
  /\ op = NoOp
  /\ hist = HistInit
  /\ alarm_pc = "idle"
  /\ milliseconds = 0
  /\ heap = 0
  /\ alloc = NoAlloc

NextToken == report_realtime_status("CLIENT_SERIAL", sys_state, sys_suspend, {})

SpecToken == InitToken /\ [][NextToken]_vars

\* The optional fields, for every build and every runtime mask, over what
\* the report samples.
InitFields ==
  /\ sys_state = "STATE_IDLE"
  /\ sys_suspend = {}
  /\ report_wco_counter = 0
  /\ report_ovr_counter = 0
  /\ status_report_mask \in SUBSET MaskBits
  /\ features \in SUBSET AllFeatures
  /\ coord_read_fail = {}
  /\ line = <<>>
  /\ char_counter = 0
  /\ float_ptr = [neg |-> FALSE, m |-> 0, e |-> 0]
  /\ ret = FALSE
  /\ tx = <<>>
  /\ op = NoOp
  /\ hist = HistInit
  /\ alarm_pc = "idle"
  /\ milliseconds = 0
  /\ heap = 0
  /\ alloc = NoAlloc

NextFields ==
  \E live \in SUBSET LiveInputs :
    report_realtime_status("CLIENT_ALL", sys_state, sys_suspend, live)

SpecFields == InitFields /\ [][NextFields]_vars

\* The parameter report, for every set of coordinate records that fail to read.
InitNgc ==
  /\ sys_state = "STATE_IDLE"
  /\ sys_suspend = {}
  /\ report_wco_counter = 0
  /\ report_ovr_counter = 0
  /\ status_report_mask = {}
  /\ features = AllFeatures
  /\ coord_read_fail \in SUBSET (0..SETTING_INDEX_NCOORD)
  /\ line = <<>>
  /\ char_counter = 0
  /\ float_ptr = [neg |-> FALSE, m |-> 0, e |-> 0]
  /\ ret = FALSE
  /\ tx = <<>>
  /\ op = NoOp
  /\ hist = HistInit
  /\ alarm_pc = "idle"
  /\ milliseconds = 0
  /\ heap = 0
  /\ alloc = NoAlloc

NextNgc == \E client \in Clients : report_ngc_parameters(client)

SpecNgc == InitNgc /\ [][NextNgc]_vars

\* The lines read_float is tried on: an optional word letter, an optional
\* sign, a run of one repeated digit, a few more digits, an optional decimal
\* point with digits, and what follows the numeral.
Rep(c, n) == [i \in 1..n |-> c]

DigitSeqs(n) == UNION {[1..k -> {"0", "5"}] : k \in 0..n}

Fractions == {<<>>} \cup {<<".">> \o f : f \in DigitSeqs(MaxFrac)}

Lines ==
  {<<"X", "1", "2", ".", "3", "4", "5", " ">>, <<"1", ".", "2", ".", "3">>}
  \cup
  {p \o s \o Rep(d, z) \o ip \o fr \o t :
     p \in {<<>>, <<"X">>}, s \in {<<>>, <<"+">>, <<"-">>},
     d \in {"0", "1"}, z \in 0..MaxRun, ip \in DigitSeqs(MaxInt),
     fr \in Fractions, t \in {<<>>, <<" ">>, <<"X">>, <<".", "3">>}}

\* A value *float_ptr holds before the call, which no line decodes to.
StaleFloat == [neg |-> TRUE, m |-> 7, e |-> -1]

InitFloat ==
  /\ sys_state = "STATE_IDLE"
  /\ sys_suspend = {}
  /\ report_wco_counter = 0
  /\ report_ovr_counter = 0
  /\ status_report_mask = {}
  /\ features = AllFeatures
  /\ coord_read_fail = {}
  /\ line \in Lines
  /\ char_counter \in {c \in 0..1 : c <= Len(line)}
  /\ float_ptr = StaleFloat
  /\ ret = FALSE
  /\ tx = <<>>
  /\ op = NoOp
  /\ hist = HistInit
  /\ alarm_pc = "idle"
  /\ milliseconds = 0
  /\ heap = 0
  /\ alloc = NoAlloc

NextFloat == read_float

SpecFloat == InitFloat /\ [][NextFloat]_vars

\* Alarms raised from the main loop, each one followed by whatever the main
\* loop does next: another alarm, or a parameter report.
InitAlarm ==
  /\ sys_state = "STATE_ALARM"
  /\ sys_suspend = {}
  /\ report_wco_counter = 0
  /\ report_ovr_counter = 0
  /\ status_report_mask = {}
  /\ features = AllFeatures
  /\ coord_read_fail \in {{}, {0}}
  /\ line = <<>>
  /\ char_counter = 0
  /\ float_ptr = [neg |-> FALSE, m |-> 0, e |-> 0]
  /\ ret = FALSE
  /\ tx = <<>>
  /\ op = NoOp
  /\ hist = HistInit
  /\ alarm_pc = "idle"
  /\ milliseconds = 0
  /\ heap = 0
  /\ alloc = NoAlloc

NextAlarm ==
  \/ \E alarm_code \in AlarmCodes : report_alarm_message(alarm_code)
  \/ delay_ms
  \/ alarm_return
  \/ alarm_pc = "idle" /\ \E client \in Clients : report_ngc_parameters(client)

SpecAlarm == InitAlarm /\ [][NextAlarm]_vars

\* The status reporter with an interrupt writing sys.state and sys.suspend
\* while it runs.
InitIrq ==
  /\ sys_state = "STATE_IDLE"
  /\ sys_suspend = {}
  /\ report_wco_counter = 0
  /\ report_ovr_counter = 0
  /\ status_report_mask = {}
  /\ features = AllFeatures
  /\ coord_read_fail = {}
  /\ line = <<>>
  /\ char_counter = 0
  /\ float_ptr = [neg |-> FALSE, m |-> 0, e |-> 0]
  /\ ret = FALSE
  /\ tx = <<>>
  /\ op = NoOp
  /\ hist = HistInit
  /\ alarm_pc = "idle"
  /\ milliseconds = 0
  /\ heap = 0
  /\ alloc = NoAlloc

\* What the two throttle blocks may read in sys.state: they tell the busy
\* states from the others, one state of each kind is drawn.
ThrottleReads == {"STATE_IDLE", "STATE_CYCLE"}

\* The flags the case of the switch for a state can test at all.
SwitchFlags(state) ==
  CASE state = "STATE_HOLD" -> {"SUSPEND_JOG_CANCEL", "SUSPEND_HOLD_COMPLETE"}
    [] state = "STATE_SAFETY_DOOR" ->
         {"SUSPEND_INITIATE_RESTORE", "SUSPEND_RETRACT_COMPLETE",
          "SUSPEND_SAFETY_DOOR_AJAR"}
    [] OTHER -> {}

NextIrq ==
  \E state_switch \in RunStates, state_wco \in ThrottleReads,
     state_ovr \in ThrottleReads :
    \E seen \in SUBSET SwitchFlags(state_switch) :
      report_realtime_status_irq("CLIENT_SERIAL", state_switch, seen, state_wco,
                                 state_ovr, {})

SpecIrq == InitIrq /\ [][NextIrq]_vars

\* Formatted sends of messages whose length is around the size of the local
\* buffer, new[] succeeding or not.
MsgLengths == (LOCAL_BUFFER_SIZE - LenSpan)..(LOCAL_BUFFER_SIZE + LenSpan)

InitHeap ==
  /\ sys_state = "STATE_IDLE"
  /\ sys_suspend = {}
  /\ report_wco_counter = 0
  /\ report_ovr_counter = 0
  /\ status_report_mask = {}
  /\ features = AllFeatures
  /\ coord_read_fail = {}
  /\ line = <<>>
  /\ char_counter = 0
  /\ float_ptr = [neg |-> FALSE, m |-> 0, e |-> 0]
  /\ ret = FALSE
  /\ tx = <<>>
  /\ op = NoOp
  /\ hist = HistInit
  /\ alarm_pc = "idle"
  /\ milliseconds = 0
  /\ heap = 0
  /\ alloc = NoAlloc

NextHeap ==
  \/ \E client \in Clients, length \in MsgLengths, new_ok \in BOOLEAN :
       grbl_sendf_heap(client, length, new_ok)
  \/ \E level \in MsgLevels, length \in MsgLengths,
        new_ok \in BOOLEAN, new_ok_sendf \in BOOLEAN :
       grbl_msg_sendf("CLIENT_ALL", level, length, new_ok, new_ok_sendf)

SpecHeap == InitHeap /\ [][NextHeap]_vars

(***************************************************************************)
(* Reading the last status frame.                                          *)
(***************************************************************************)
Pieces(text) == {text[i] : i \in DOMAIN text}

\* The pieces of the status frame the last report sent (empty before one).
Frame ==
  IF op.name = "report_realtime_status" /\ tx # <<>> THEN Pieces(tx[1].text)
                                                     ELSE {}

(***************************************************************************)
(* C1: from both counters at zero, with the run-state idle at every        *)
(* report, the override field is sent exactly once in every                *)
(* REPORT_OVR_REFRESH_IDLE_COUNT consecutive reports: no run of that many  *)
(* reports goes without it, and two successive frames that carry it are    *)
(* exactly that many reports apart.                                        *)
(***************************************************************************)
C1_OvrPeriodIdle ==
  hist.idle =>
    /\ hist.since < REPORT_OVR_REFRESH_IDLE_COUNT
    /\ hist.gap \in {0, REPORT_OVR_REFRESH_IDLE_COUNT}

\* The second frame of an idle run that carries the override field.
C1_Witness ==
  /\ hist.idle
  /\ "|Ov:" \in Frame
  /\ hist.gap = REPORT_OVR_REFRESH_IDLE_COUNT

(***************************************************************************)
(* C2: no status frame carries both the work-offset field and the          *)
(* override field.                                                         *)
(***************************************************************************)
C2_NeverBothFields == ~("|WCO:" \in Frame /\ "|Ov:" \in Frame)

\* A report entered with both counters at zero: both fields were due.
C2_Witness ==
  /\ op.name = "report_realtime_status"
  /\ op.armed
  /\ "|WCO:" \in Frame
  /\ "|Ov:" \notin Frame

(***************************************************************************)
(* C3, as stated: a frame that carries the override field is followed by a *)
(* frame that carries the work-offset field.                               *)
(***************************************************************************)
C3_Original == [][("|Ov:" \in Frame) => ("|WCO:" \in Frame')]_vars

(***************************************************************************)
(* C3, amended: the coupling runs the other way. A report that sends the   *)
(* work-offset field while the override counter is zero sets that counter  *)
(* to 1, so that the override field is left out of that frame and is sent  *)
(* by the very next report (which does not send the work-offset field).    *)
(***************************************************************************)
C3_WcoArmsOvr ==
  /\ [][(report_wco_counter = 0 /\ report_ovr_counter = 0)
          => (op'.armed /\ "|WCO:" \in Frame' /\ "|Ov:" \notin Frame'
              /\ report_ovr_counter' = 0)]_vars
  /\ [][op.armed => ("|Ov:" \in Frame' /\ "|WCO:" \notin Frame')]_vars

\* The report right after the arming one, in an idle run: the second report.
C3_Witness ==
  /\ hist.idle
  /\ "|Ov:" \in Frame
  /\ report_wco_counter = REPORT_WCO_REFRESH_IDLE_COUNT - 2
  /\ report_ovr_counter = REPORT_OVR_REFRESH_IDLE_COUNT - 1

(***************************************************************************)
(* C4, as stated: every report lowers each counter by exactly one.         *)
(***************************************************************************)
C4_Original ==
  [][/\ report_wco_counter' = report_wco_counter - 1
     /\ report_ovr_counter' = report_ovr_counter - 1
     /\ report_wco_counter' >= 0
     /\ report_ovr_counter' >= 0]_vars

(***************************************************************************)
(* C4, amended: a counter that is nonzero when a report starts ends that   *)
(* report exactly one lower; a counter that is zero is not decremented (it *)
(* is reloaded, or held at zero); no counter ever leaves the range from 0  *)
(* to its largest reload value.                                            *)
(***************************************************************************)
C4_DecrementByOne ==
  [][/\ report_wco_counter > 0 => report_wco_counter' = report_wco_counter - 1
     /\ report_ovr_counter > 0 => report_ovr_counter' = report_ovr_counter - 1
     /\ report_wco_counter' \in 0..(REPORT_WCO_REFRESH_BUSY_COUNT - 1)
     /\ report_ovr_counter' \in 0..(REPORT_OVR_REFRESH_BUSY_COUNT - 1)]_vars

\* A report that only counted down: both counters were nonzero.
C4_Witness ==
  /\ op.name = "report_realtime_status"
  /\ "|WCO:" \notin Frame
  /\ "|Ov:" \notin Frame
  /\ report_wco_counter = 3
  /\ report_ovr_counter = 4

(***************************************************************************)
(* C5: the throttle rule of the two fields. reload is what a zero counter  *)
(* is reset to, given the refresh count of the field and of the run-state. *)
(***************************************************************************)
ClaimedBusyStates ==
  {"STATE_HOMING", "STATE_CYCLE", "STATE_HOLD", "STATE_JOG", "STATE_SAFETY_DOOR"}

ThrottleRule(reload(_)) ==
  LET busy == sys_state' \in ClaimedBusyStates
      \* the override counter when its block is reached
      mid  == IF report_wco_counter = 0 /\ report_ovr_counter = 0
                THEN 1 ELSE report_ovr_counter
  IN /\ report_wco_counter # 0 =>
          /\ "|WCO:" \notin Frame'
          /\ report_wco_counter' = report_wco_counter - 1
     /\ report_wco_counter = 0 =>
          /\ "|WCO:" \in Frame'
          /\ report_wco_counter' =
               reload(IF busy THEN REPORT_WCO_REFRESH_BUSY_COUNT
                              ELSE REPORT_WCO_REFRESH_IDLE_COUNT)
     /\ mid # 0 =>
          /\ "|Ov:" \notin Frame'
          /\ report_ovr_counter' = mid - 1
     /\ mid = 0 =>
          /\ "|Ov:" \in Frame'
          /\ report_ovr_counter' =
               reload(IF busy THEN REPORT_OVR_REFRESH_BUSY_COUNT
                              ELSE REPORT_OVR_REFRESH_IDLE_COUNT)

\* C5, as stated: a zero counter is reset to the refresh count itself.
C5_Original == [][LET same(n) == n IN ThrottleRule(same)]_vars

(***************************************************************************)
(* C5, amended: a nonzero counter is decremented and its field left out; a *)
(* zero counter has its field sent and is reset to the refresh count minus *)
(* one, the busy count in Homing/Run/Hold/Jog/Door and the idle count in   *)
(* Idle/Alarm/Check/Sleep.                                                 *)
(***************************************************************************)
C5_ThrottleRule == [][LET less(n) == n - 1 IN ThrottleRule(less)]_vars

\* The override field sent while the door state is active: a busy reload.
C5_Witness ==
  /\ sys_state = "STATE_SAFETY_DOOR"
  /\ "|Ov:" \in Frame
  /\ report_ovr_counter = REPORT_OVR_REFRESH_BUSY_COUNT - 1

(***************************************************************************)
(* C6: every status frame starts with "<" followed by exactly one          *)
(* run-state token, of the thirteen there are, chosen by the run-state and *)
(* the suspend flags: Hold with jog cancel shows Jog, else Hold:0 when the *)
(* hold is complete and Hold:1 when not; Door shows Door:3 when restoring, *)
(* else Door:2 while the retract is not complete, else Door:1 with the     *)
(* door ajar and Door:0 without; the other states show their own token.    *)
(***************************************************************************)
TokenSet ==
  {<<"Idle">>, <<"Run">>, <<"Hold:", "0">>, <<"Hold:", "1">>, <<"Jog">>,
   <<"Home">>, <<"Alarm">>, <<"Check">>, <<"Door:", "0">>, <<"Door:", "1">>,
   <<"Door:", "2">>, <<"Door:", "3">>, <<"Sleep">>}

ClaimedToken(state, suspend) ==
  CASE state = "STATE_HOLD" ->
         IF "SUSPEND_JOG_CANCEL" \in suspend THEN <<"Jog">>
         ELSE IF "SUSPEND_HOLD_COMPLETE" \in suspend THEN <<"Hold:", "0">>
         ELSE <<"Hold:", "1">>
    [] state = "STATE_SAFETY_DOOR" ->
         IF "SUSPEND_INITIATE_RESTORE" \in suspend THEN <<"Door:", "3">>
         ELSE IF "SUSPEND_RETRACT_COMPLETE" \notin suspend THEN <<"Door:", "2">>
         ELSE IF "SUSPEND_SAFETY_DOOR_AJAR" \in suspend THEN <<"Door:", "1">>
         ELSE <<"Door:", "0">>
    [] state = "STATE_IDLE" -> <<"Idle">>
    [] state = "STATE_CYCLE" -> <<"Run">>
    [] state = "STATE_JOG" -> <<"Jog">>
    [] state = "STATE_HOMING" -> <<"Home">>
    [] state = "STATE_ALARM" -> <<"Alarm">>
    [] state = "STATE_CHECK_MODE" -> <<"Check">>
    [] state = "STATE_SLEEP" -> <<"Sleep">>

\* What stands between the "<" and the position field of a status text.
TokenOf(text) ==
  LET pos == CHOOSE i \in DOMAIN text : text[i] \in {"|MPos:", "|WPos:"}
  IN SubSeq(text, 2, pos - 1)

C6_RunStateToken ==
  op.name = "report_realtime_status" =>
    /\ tx # <<>>
    /\ tx[1].text[1] = "<"
    /\ TokenOf(tx[1].text) \in TokenSet
    /\ TokenOf(tx[1].text) = ClaimedToken(sys_state, sys_suspend)

\* A hold shown as Jog: the jog cancel is pending, the hold complete.
C6_Witness ==
  /\ op.name = "report_realtime_status"
  /\ sys_state = "STATE_HOLD"
  /\ {"SUSPEND_JOG_CANCEL", "SUSPEND_HOLD_COMPLETE"} \subseteq sys_suspend
  /\ TokenOf(tx[1].text) = <<"Jog">>

(***************************************************************************)
(* C7: the optional fields of a status frame, the compile-time flags each  *)
(* one is compiled under, and the bit of settings.status_report_mask the   *)
(* source tests for it (only the buffer field has one).                    *)
(***************************************************************************)
OptionalFields == {"|Bf:", "|Ln:", "|FS:", "|F:", "|Pn:", "|WCO:", "|Ov:"}

CompileFlags(f) ==
  CASE f = "|Bf:" -> {"REPORT_FIELD_BUFFER_STATE"}
    [] f = "|Ln:" -> {"USE_LINE_NUMBERS", "REPORT_FIELD_LINE_NUMBERS"}
    [] f = "|FS:" -> {"REPORT_FIELD_CURRENT_FEED_SPEED", "VARIABLE_SPINDLE"}
    [] f = "|F:" -> {"REPORT_FIELD_CURRENT_FEED_SPEED"}
    [] f = "|Pn:" -> {"REPORT_FIELD_PIN_STATE"}
    [] f = "|WCO:" -> {"REPORT_FIELD_WORK_COORD_OFFSET"}
    [] f = "|Ov:" -> {"REPORT_FIELD_OVERRIDES"}

\* C7, as stated: a field is in the frame only if its compile-time flags are
\* enabled and its bit of the runtime mask is set. Only the buffer field has
\* a bit of its own; for the others the statement is read at its weakest: some
\* bit of the mask is set.
C7_Original ==
  \A f \in OptionalFields :
    f \in Frame =>
      /\ CompileFlags(f) \subseteq features
      /\ IF f = "|Bf:" THEN "BITFLAG_RT_STATUS_BUFFER_STATE" \in status_report_mask
                       ELSE status_report_mask # {}

(***************************************************************************)
(* C7, amended: every optional field is in a frame only if its             *)
(* compile-time flags are enabled; the buffer field Bf needs in addition   *)
(* its bit of the runtime mask, and is never sent with that bit clear. The *)
(* other fields (Ln, FS, Pn, WCO, Ov) have no bit in the runtime mask and  *)
(* are sent with the mask all clear.                                       *)
(***************************************************************************)
C7_FieldGates ==
  \A f \in OptionalFields :
    f \in Frame =>
      /\ CompileFlags(f) \subseteq features
      /\ f = "|Bf:" => "BITFLAG_RT_STATUS_BUFFER_STATE" \in status_report_mask

\* A build with every field, the runtime mask all clear: no Bf, the others sent.
C7_Witness ==
  /\ features = AllFeatures
  /\ status_report_mask = {}
  /\ "|Bf:" \notin Frame
  /\ {"|Ln:", "|FS:", "|Pn:", "|WCO:"} \subseteq Frame

(***************************************************************************)
(* C8: when the read of coordinate record k fails in the parameter report, *)
(* the client is sent exactly one error acknowledgement                    *)
(* (error:STATUS_SETTING_READ_FAIL), no coordinate record of index k or    *)
(* more, and none of the G92, TLO and PRB records.                         *)
(***************************************************************************)
ClaimedChannels(client) ==
  CASE client = "CLIENT_SERIAL" -> {"Serial"}
    [] client = "CLIENT_WEBSOCKET" -> {"Serial2Socket"}
    [] client = "CLIENT_ALL" -> {"Serial", "Serial2Socket"}

ErrorAck == <<"error:", "STATUS_SETTING_READ_FAIL", "\r\n">>

ClaimedRecordName == <<"54", "55", "56", "57", "58", "59", "28", "30">>

\* The coordinate records a text holds, by name.
RecordNames(text) ==
  {text[i + 1] : i \in {j \in 1..(Len(text) - 1) : text[j] = "[G"}}

FirstFailure == CHOOSE k \in coord_read_fail : \A j \in coord_read_fail : k <= j

C8_ReadFailureAborts ==
  (op.name = "report_ngc_parameters" /\ coord_read_fail # {}) =>
    /\ \A ch \in {"Serial", "Serial2Socket"} :
         Cardinality({i \in DOMAIN tx : tx[i].chan = ch /\ tx[i].text = ErrorAck})
           = IF ch \in ClaimedChannels(op.client) THEN 1 ELSE 0
    /\ \A i \in DOMAIN tx :
         /\ \A j \in FirstFailure..SETTING_INDEX_NCOORD :
              ClaimedRecordName[j + 1] \notin RecordNames(tx[i].text)
         /\ Pieces(tx[i].text) \cap {"[G92:", "[TLO:", "[PRB:"} = {}

\* The third record (G56) alone fails, the report is for every client.
C8_Witness ==
  /\ op.name = "report_ngc_parameters"
  /\ op.client = "CLIENT_ALL"
  /\ coord_read_fail = {2}
  /\ Len(tx) = 2
  /\ \A i \in DOMAIN tx : tx[i].text = ErrorAck

(***************************************************************************)
(* C9: when no digit stands where the scan would consume one (after an     *)
(* optional sign and an optional decimal point), read_float returns false  *)
(* and leaves *char_counter and *float_ptr as they were.                   *)
(***************************************************************************)
NoDigitAt(ln, cc) ==
  LET a == IF CharAt(ln, cc) \in {"+", "-"} THEN cc + 1 ELSE cc
      b == IF CharAt(ln, a) = "." THEN a + 1 ELSE a
  IN CharAt(ln, b) \notin Digits

C9_NoDigitsFails ==
  [][NoDigitAt(line, char_counter) =>
       /\ op'.name = "read_float"
       /\ ret' = FALSE
       /\ char_counter' = char_counter
       /\ float_ptr' = float_ptr]_vars

\* read_float called on "-." : a sign, a decimal point, no digit.
C9_Witness ==
  /\ op.name = "read_float"
  /\ line = <<"-", ".">>
  /\ char_counter = 0
  /\ ret = FALSE
  /\ float_ptr = StaleFloat

(***************************************************************************)
(* C10: the numeral at the cursor, its digits and its value.               *)
(***************************************************************************)
\* The first index from i on that holds no digit.
RECURSIVE RunEnd(_, _)
RunEnd(ln, i) == IF CharAt(ln, i) \in Digits THEN RunEnd(ln, i + 1) ELSE i

\* ln[i..j-1], indices counted from 0.
Slice(ln, i, j) == SubSeq(ln, i + 1, j)

RECURSIVE StripZeros(_)
StripZeros(ds) ==
  IF ds # <<>> /\ Head(ds) = "0" THEN StripZeros(Tail(ds)) ELSE ds

RECURSIVE DigitsValue(_)
DigitsValue(ds) ==
  IF ds = <<>> THEN 0
  ELSE DigitsValue(SubSeq(ds, 1, Len(ds) - 1)) * 10 + (Ord(ds[Len(ds)]) - Ord("0"))

\* The numeral [+-]?digits[.digits]? that starts at cc: where its integer
\* digits start and end, where the numeral ends, its digits.
NumeralAt(ln, cc) ==
  LET a  == IF CharAt(ln, cc) \in {"+", "-"} THEN cc + 1 ELSE cc
      ie == RunEnd(ln, a)
      dot == CharAt(ln, ie) = "."
      fe == IF dot THEN RunEnd(ln, ie + 1) ELSE ie
  IN [matches |-> ie > a,
      neg |-> CharAt(ln, cc) = "-",
      int |-> Slice(ln, a, ie),
      frac |-> IF dot THEN Slice(ln, ie + 1, fe) ELSE <<>>,
      end |-> fe]

SignificantDigits(n) == StripZeros(n.int \o n.frac)

\* m * 10^e with the trailing zeros of m moved into e.
RECURSIVE Norm(_)
Norm(v) ==
  IF v.m # 0 /\ v.m % 10 = 0 THEN Norm([v EXCEPT !.m = @ \div 10, !.e = @ + 1])
                             ELSE [m |-> v.m, e |-> v.e]

DecEq(a, b) ==
  IF a.m = 0 \/ b.m = 0 THEN a.m = b.m
                        ELSE a.neg = b.neg /\ Norm(a) = Norm(b)

\* What the claim promises of a call on numeral n.
DecodesTo(n) ==
  /\ ret' = TRUE
  /\ DecEq(float_ptr', [neg |-> n.neg, m |-> DigitsValue(SignificantDigits(n)),
                        e |-> 0 - Len(n.frac)])
  /\ char_counter' = n.end

\* C10, as stated: every numeral [+-]?digits[.digits]? of at most 8
\* significant digits, leading zeros not counted, decodes to its value (up to
\* the rounding of the float, which the model leaves out), with the cursor
\* left on the first character after the numeral.
C10_Original ==
  [][LET n == NumeralAt(line, char_counter)
     IN (n.matches /\ Len(SignificantDigits(n)) <= MAX_INT_DIGITS)
          => DecodesTo(n)]_vars

\* The same for the numerals of at most 8 digits in all, leading zeros
\* counted: these do decode to their value.
C10_WithinEightDigits ==
  [][LET n == NumeralAt(line, char_counter)
     IN (n.matches /\ Len(n.int \o n.frac) <= MAX_INT_DIGITS)
          => DecodesTo(n)]_vars

\* "X12.345 " decoded from index 1: 12.345, the cursor on the space.
C10_Scenario ==
  /\ op.name = "read_float"
  /\ line = <<"X", "1", "2", ".", "3", "4", "5", " ">>
  /\ ret = TRUE
  /\ float_ptr = [neg |-> FALSE, m |-> 12345, e |-> -3]
  /\ char_counter = 7

(***************************************************************************)
(* C11: a numeral of more than 8 digits is still decoded, and all of its   *)
(* digits are consumed. Its value is the integer its first 8 digits spell, *)
(* times ten to the power (integer digits dropped) - (fractional digits    *)
(* accepted): the digits beyond the eighth do not round it, those before   *)
(* the decimal point count as zeros and those after it count for nothing.  *)
(***************************************************************************)
Min(a, b) == IF a < b THEN a ELSE b

Max(a, b) == IF a > b THEN a ELSE b

C11_DigitCap ==
  [][LET n  == NumeralAt(line, char_counter)
         ds == n.int \o n.frac
         dropped_int   == Max(0, Len(n.int) - MAX_INT_DIGITS)
         accepted_frac == Min(Len(n.frac), Max(0, MAX_INT_DIGITS - Len(n.int)))
     IN Len(ds) > MAX_INT_DIGITS =>
          /\ ret' = TRUE
          /\ char_counter' = n.end
          /\ DecEq(float_ptr',
                   [neg |-> n.neg,
                    m |-> DigitsValue(SubSeq(ds, 1, MAX_INT_DIGITS)),
                    e |-> dropped_int - accepted_frac])]_vars

\* "1111111115.05": two integer digits and two fractional digits dropped.
C11_Witness ==
  /\ op.name = "read_float"
  /\ line = Rep("1", 9) \o <<"5", ".", "0", "5">>
  /\ ret = TRUE
  /\ float_ptr = [neg |-> FALSE, m |-> 11111111, e |-> 2]
  /\ char_counter = 13

(***************************************************************************)
(* C12: a call that finds a digit stops at the first character, after the  *)
(* optional sign, that is neither a digit nor the first decimal point, and *)
(* leaves the cursor on that character; the value is that of the numeral   *)
(* up to there, whatever follows. A second decimal point is such a         *)
(* character: "1.2.3" decodes to 1.2 with the cursor on the second point.  *)
(***************************************************************************)
\* The first index from i on that holds neither a digit nor, while none was
\* met, a decimal point.
RECURSIVE ScanStop(_, _, _)
ScanStop(ln, i, met) ==
  IF CharAt(ln, i) \in Digits THEN ScanStop(ln, i + 1, met)
  ELSE IF CharAt(ln, i) = "." /\ ~met THEN ScanStop(ln, i + 1, TRUE)
  ELSE i

C12_OneDecimalPoint ==
  [][LET a    == IF CharAt(line, char_counter) \in {"+", "-"}
                   THEN char_counter + 1 ELSE char_counter
         stop == ScanStop(line, a, FALSE)
         n    == NumeralAt(line, char_counter)
         ds   == n.int \o n.frac
     IN ds # <<>> =>
          /\ ret' = TRUE
          /\ char_counter' = stop
          /\ \A i \in a..(stop - 1) : CharAt(line, i) \in Digits \cup {"."}
          /\ Cardinality({i \in a..(stop - 1) : CharAt(line, i) = "."}) <= 1
          /\ CharAt(line, stop) = "." =>
                Cardinality({i \in a..(stop - 1) : CharAt(line, i) = "."}) = 1
          /\ DecEq(float_ptr',
                   [neg |-> n.neg,
                    m |-> DigitsValue(SubSeq(ds, 1, Min(Len(ds), MAX_INT_DIGITS))),
                    e |-> Max(0, Len(n.int) - MAX_INT_DIGITS)
                          - Min(Len(n.frac), Max(0, MAX_INT_DIGITS - Len(n.int)))])
          /\ float_ptr' = ReadFloat(Slice(line, 0, stop), char_counter,
                                    float_ptr).float_ptr]_vars

\* "1.2.3" read from its start: 1.2, the cursor on the second point.
C12_Witness ==
  /\ op.name = "read_float"
  /\ line = <<"1", ".", "2", ".", "3">>
  /\ ret = TRUE
  /\ float_ptr = [neg |-> FALSE, m |-> 12, e |-> -1]
  /\ char_counter = 3

(***************************************************************************)
(* C13: report_alarm_message hands the frame ALARM:<code>\r\n to both      *)
(* transport channels in the step that enters its delay, so before the     *)
(* delay starts; the delay then runs its 500 iterations one by one with    *)
(* nothing else happening, and the call returns only when none is left; no *)
(* other operation waits.                                                  *)
(***************************************************************************)
AlarmFrame(code) == <<"ALARM:", ToString(code), "\r\n">>

\* The alarm frame of the last call is with the socket and with the serial port.
AlarmHanded ==
  \A ch \in {"Serial2Socket", "Serial"} :
    \E i \in DOMAIN tx : tx[i] = [chan |-> ch, text |-> AlarmFrame(op.code)]

C13_AlarmBeforeDelay ==
  /\ [](op.name = "report_alarm_message" => AlarmHanded)
  /\ [][(alarm_pc = "idle" /\ alarm_pc' = "delay_ms")
          => (op'.name = "report_alarm_message" /\ milliseconds' = 500)]_vars
  /\ [][alarm_pc = "delay_ms"
          => /\ tx' = tx
             /\ op' = op
             /\ \/ milliseconds > 0 /\ milliseconds' = milliseconds - 1
                                    /\ alarm_pc' = "delay_ms"
                \/ milliseconds = 0 /\ alarm_pc' = "idle"]_vars
  /\ [][op'.name # "report_alarm_message"
          => (alarm_pc = "idle" /\ alarm_pc' = "idle")]_vars

\* The call for alarm 2 has returned: its delay is over, both channels hold
\* its frame.
C13_Witness ==
  /\ op.name = "report_alarm_message"
  /\ op.code = 2
  /\ alarm_pc = "idle"
  /\ milliseconds = 0
  /\ Len(tx) = 2
  /\ AlarmHanded

(***************************************************************************)
(* C14: with an interrupt writing the run-state and the suspend flags      *)
(* between the reads of one status report, the frame sent still starts     *)
(* with "<", holds exactly one run-state token, of the token set, ends     *)
(* with ">\r\n", and each throttle counter is left between 0 and its       *)
(* largest refresh count minus one.                                        *)
(***************************************************************************)
\* The pieces a run-state token starts with.
TokenHeads == {t[1] : t \in TokenSet}

C14_TornReadsWellFormed ==
  op.name = "report_realtime_status" =>
    /\ Len(tx) = 1
    /\ LET text == tx[1].text
       IN /\ text[1] = "<"
          /\ text[Len(text)] = ">\r\n"
          /\ TokenOf(text) \in TokenSet
          /\ Cardinality({i \in DOMAIN text : text[i] \in TokenHeads}) = 1
          /\ Cardinality({i \in DOMAIN text : text[i] \in {"<", ">\r\n"}}) = 2
    /\ report_wco_counter \in
         0..(Max(REPORT_WCO_REFRESH_BUSY_COUNT, REPORT_WCO_REFRESH_IDLE_COUNT) - 1)
    /\ report_ovr_counter \in
         0..(Max(REPORT_OVR_REFRESH_BUSY_COUNT, REPORT_OVR_REFRESH_IDLE_COUNT) - 1)

\* A frame no report makes without the interrupt: the token says Hold:0 and
\* the override counter was reloaded for an idle state, one report after the
\* work-offset counter was reloaded for a busy one.
C14_Witness ==
  /\ op.name = "report_realtime_status"
  /\ TokenOf(tx[1].text) = <<"Hold:", "0">>
  /\ "|Ov:" \in Frame
  /\ sys_state = "STATE_IDLE"
  /\ report_wco_counter = REPORT_WCO_REFRESH_BUSY_COUNT - 2
  /\ report_ovr_counter = REPORT_OVR_REFRESH_IDLE_COUNT - 1

(***************************************************************************)
(* C15: when the status reporter is called without end, whatever the       *)
(* run-state at each call, the work-offset field is sent again and again,  *)
(* and so is the override field: the work-offset block setting a zero      *)
(* override counter to 1 does not keep the override field back for ever.   *)
(***************************************************************************)
C15_BothFieldsForever ==
  /\ []<>("|WCO:" \in Frame)
  /\ []<>("|Ov:" \in Frame)

\* The work-offset field sent a second time in an idle run, after the
\* override field it had postponed was sent.
C15_Witness ==
  /\ hist.idle
  /\ hist.seen
  /\ "|WCO:" \in Frame
  /\ report_ovr_counter = 0

(***************************************************************************)
(* C16: a report that sends the work-offset field has computed the offsets *)
(* it prints: it was entered in work-position mode or with the work-offset *)
(* counter at zero, and what follows "|WCO:" is the computed vector, in    *)
(* machine-position mode as in work-position mode.                         *)
(***************************************************************************)
C16_WcoComputedBeforeSent ==
  [][("|WCO:" \in Frame') =>
       /\ \/ "BITFLAG_RT_STATUS_POSITION_TYPE" \notin status_report_mask
          \/ report_wco_counter = 0
       /\ "wco" \in Frame'
       /\ "uninitialised" \notin Frame']_vars

\* The field sent in machine-position mode, where only the zero counter has
\* the offsets computed.
C16_Witness ==
  /\ "BITFLAG_RT_STATUS_POSITION_TYPE" \in status_report_mask
  /\ "|MPos:" \in Frame
  /\ {"|WCO:", "wco"} \subseteq Frame

(***************************************************************************)
(* C17, as stated: grbl_sendf and grbl_msg_sendf ask the heap for a buffer *)
(* exactly when the message is 64 characters or more, and every buffer     *)
(* they get is released before they return: a call leaves the heap as it   *)
(* found it.                                                               *)
(***************************************************************************)
C17_Original ==
  [][op'.name \in {"grbl_sendf", "grbl_msg_sendf"} =>
       /\ \A i \in DOMAIN alloc' :
            /\ alloc'[i].requested = (alloc'[i].length >= 64)
            /\ alloc'[i].allocated => alloc'[i].released
       /\ heap' = heap]_vars

\* The same for every length but 64: these calls do leave the heap as they
\* found it.
C17_AllButSixtyFour ==
  [][(/\ op'.name \in {"grbl_sendf", "grbl_msg_sendf"}
      /\ \A i \in DOMAIN alloc' : alloc'[i].length # 64) =>
       /\ \A i \in DOMAIN alloc' :
            /\ alloc'[i].requested = (alloc'[i].length >= 64)
            /\ alloc'[i].allocated => alloc'[i].released
       /\ heap' = heap]_vars

\* A message of 65 characters sent by grbl_sendf: a buffer got and released.
C17_Scenario ==
  /\ op.name = "grbl_sendf"
  /\ Len(alloc) = 1
  /\ alloc[1].length = 65
  /\ alloc[1].allocated
  /\ alloc[1].released
  /\ heap = 0

=============================================================================
